---- MODULE Spec2Model ----
(***************************************************************************)
(* Model of the footy-cast prediction engine (src/prediction_engine.py)    *)
(* and of the way the form in src/app.py drives it.                        *)
(*                                                                         *)
(* Numbers.  The engine computes in floating point.  Here a real number is *)
(* a fixed-point integer with ONE units per 1.0 (six decimals); a team     *)
(* metric is held in tenths, which is the finest step of the form's        *)
(* inputs; a reported percentage is held in tenths of a percent and a      *)
(* reported expected-goals value in hundredths, which is what round(x, 1)  *)
(* and round(x, 2) produce.                                                *)
(***************************************************************************)
EXTENDS Integers, Sequences, FiniteSets, TLC

ONE == 1000000
KILO == 1000

----------------------------------------------------------------------------
(* Fixed-point arithmetic (the float operators *, / and round of the code) *)

Abs(x) == IF x < 0 THEN -x ELSE x

Sign(x) == IF x < 0 THEN -1 ELSE 1

\* a * b / ONE for naturals, computed in two halves so that no intermediate
\* product leaves the integer range.
MulNat(a, b) ==
    LET a1 == a \div KILO
        a0 == a % KILO
        b1 == b \div KILO
        b0 == b % KILO
    IN  a1 * b1 + ((a1 * b0 + a0 * b1 + ((a0 * b0) \div KILO)) \div KILO)

Mul(a, b) == Sign(a) * Sign(b) * MulNat(Abs(a), Abs(b))

\* Decimal long division: the digits of (r / b) after the point.
RECURSIVE DivDigits(_, _, _)
DivDigits(r, b, n) ==
    IF n = 0 THEN 0
    ELSE LET d == (r * 10) \div b
             r2 == (r * 10) % b
         IN  d * (10 ^ (n - 1)) + DivDigits(r2, b, n - 1)

\* a / b for naturals, b > 0.
DivNat(a, b) == (a \div b) * ONE + DivDigits(a % b, b, 6)

\* a / b, b # 0 (the callers test for zero first, as Python raises there).
Div(a, b) == Sign(a) * Sign(b) * DivNat(Abs(a), Abs(b))

\* A metric in tenths as a real.
Real(tenths) == tenths * (ONE \div 10)

\* round(x, ndigits): x a real, unit the fixed-point size of the last kept
\* digit; result counted in that digit.  Ties go to the even neighbour.
RoundTo(x, unit) ==
    LET q == x \div unit
        r == x % unit
    IN  IF 2 * r > unit \/ (2 * r = unit /\ q % 2 = 1) THEN q + 1 ELSE q

\* round(x, 1) of a percentage x, in tenths of a percent.
Round1(x) == RoundTo(x, ONE \div 10)

\* round(x, 2), in hundredths.
Round2(x) == RoundTo(x, ONE \div 100)

\* A reported percentage (tenths of a percent) read back as a real.
Pct(tenths) == tenths * (ONE \div 10)

Min(a, b) == IF b < a THEN b ELSE a

----------------------------------------------------------------------------
(* scipy.stats.poisson as the engine uses it                               *)

E_INV == 367879

\* exp(-r) for 0 <= r < 1, by the Taylor series in Horner form.
RECURSIVE ExpNegHorner(_, _)
ExpNegHorner(r, k) ==
    IF k > 12 THEN ONE
    ELSE ONE - (MulNat(r, ExpNegHorner(r, k + 1)) \div k)

RECURSIVE ExpNegInt(_)
ExpNegInt(n) == IF n = 0 THEN ONE ELSE MulNat(ExpNegInt(n - 1), E_INV)

\* exp(-x), x >= 0.
ExpNeg(x) == MulNat(ExpNegInt(x \div ONE), ExpNegHorner(x % ONE, 1))

\* stats.poisson.pmf(k, mu) for k = 0..n and mu >= 0, as a sequence:
\* exp(-mu) mu^k / k!
RECURSIVE PmfSeq(_, _)
PmfSeq(n, mu) ==
    IF n = 0 THEN <<ExpNeg(mu)>>
    ELSE LET below == PmfSeq(n - 1, mu)
         IN  Append(below, MulNat(mu, below[n]) \div n)

\* stats.poisson.pmf(k, mu), mu >= 0
PoissonPmf(k, mu) == PmfSeq(k, mu)[k + 1]

\* stats.poisson.cdf(x, mu) at x = k (the caller passes floor(x)).
RECURSIVE PoissonCdf(_, _)
PoissonCdf(k, mu) ==
    IF k < 0 THEN 0
    ELSE Min(ONE, PoissonCdf(k - 1, mu) + PoissonPmf(k, mu))

----------------------------------------------------------------------------
(* FootballPredictor                                                       *)

\* The value a float has after an invalid operation.
NaN == "nan"

\* self.offensive_weights and self.defensive_weights as __init__ sets them.
InitOffensiveWeights ==
    [xg |-> 300000, total_shots |-> 80000, shots_on_target |-> 120000,
     xgot |-> 220000, xa |-> 130000, passes_rate |-> 150000]

InitDefensiveWeights ==
    [xgot_conceded |-> 400000, tackles_rate |-> 300000,
     ball_recoveries |-> 300000]

\* A call that ended in ZeroDivisionError.
Raised == [status |-> "raised", error |-> "ZeroDivisionError"]

\* The divisor without its additive term.
ConcededDivisorNoOffset(team_data) == Real(team_data.xgot_conceded)

\* team_data['xgot_conceded'] + 0.1, the divisor in the defensive score.
ConcededDivisor(team_data) == Real(team_data.xgot_conceded) + ONE \div 10

\* calculate_team_strength(self, team_data): the pair of scores, or the
\* exception of 1 / (xgot_conceded + 0.1) when that divisor is zero.
CalculateTeamStrength(self, team_data) ==
    LET ow == self.offensive_weights
        dw == self.defensive_weights
        offensive_score ==
              Mul(Real(team_data.xg), ow.xg)
            + Mul(Real(team_data.total_shots) \div 20, ow.total_shots)
            + Mul(Real(team_data.shots_on_target) \div 10, ow.shots_on_target)
            + Mul(Real(team_data.xgot), ow.xgot)
            + Mul(Real(team_data.xa), ow.xa)
            + Mul(Real(team_data.passes_rate) \div 100, ow.passes_rate)
        divisor == ConcededDivisor(team_data)
        defensive_score ==
              Mul(Div(ONE, divisor), dw.xgot_conceded)
            + Mul(Real(team_data.tackles_rate) \div 100, dw.tackles_rate)
            + Mul(Real(team_data.ball_recoveries) \div 100, dw.ball_recoveries)
    IN  IF divisor = 0 THEN Raised
        ELSE [status |-> "ok", offensive_score |-> offensive_score,
              defensive_score |-> defensive_score]

home_advantage == 1150000

\* away_def + 0.5 and home_def + 0.5, the divisors of the expected goals.
DefenceDivisor(defensive_score) == defensive_score + ONE \div 2

\* The home value without the division by the opponent's defence.
HomeExpectedGoalsNoDefence(home_data, away_def, advantage) ==
    Mul(Real(home_data.xg), advantage)

\* home_data['xg'] * home_advantage * (1 / (away_def + 0.5)), the divisor
\* being non-zero.
HomeExpectedGoals(home_data, away_def, advantage) ==
    Mul(Mul(Real(home_data.xg), advantage), Div(ONE, DefenceDivisor(away_def)))

\* The away value with the home-advantage factor applied to it as well.
AwayExpectedGoalsWithAdvantage(away_data, home_def) ==
    Mul(Mul(Real(away_data.xg), home_advantage),
        Div(ONE, DefenceDivisor(home_def)))

\* away_data['xg'] * (1 / (home_def + 0.5)), the divisor being non-zero.
AwayExpectedGoals(away_data, home_def) ==
    Mul(Real(away_data.xg), Div(ONE, DefenceDivisor(home_def)))

\* The expected goals with each side's value scaled by its own offensive
\* score as well.
ExpectedGoalsWithOffence(self, home_data, away_data, advantage) ==
    LET home == CalculateTeamStrength(self, home_data)
        away == CalculateTeamStrength(self, away_data)
    IN  IF home.status = "raised" \/ away.status = "raised" THEN Raised
        ELSE IF DefenceDivisor(away.defensive_score) = 0 THEN Raised
        ELSE IF DefenceDivisor(home.defensive_score) = 0 THEN Raised
        ELSE [status |-> "ok",
              home |-> Mul(HomeExpectedGoals(home_data, away.defensive_score,
                                             advantage),
                           home.offensive_score),
              away |-> Mul(AwayExpectedGoals(away_data, home.defensive_score),
                           away.offensive_score)]

\* The first half of predict_match_outcome, with the home-advantage factor
\* as a parameter: the two unrounded expected-goals values, or the exception
\* of the first zero divisor met.
ExpectedGoals(self, home_data, away_data, advantage) ==
    LET home == CalculateTeamStrength(self, home_data)
        away == CalculateTeamStrength(self, away_data)
    IN  IF home.status = "raised" \/ away.status = "raised" THEN Raised
        ELSE IF DefenceDivisor(away.defensive_score) = 0 THEN Raised
        ELSE IF DefenceDivisor(home.defensive_score) = 0 THEN Raised
        ELSE [status |-> "ok",
              home |-> HomeExpectedGoals(home_data, away.defensive_score,
                                         advantage),
              away |-> AwayExpectedGoals(away_data, home.defensive_score)]

\* The comparison with a level score counted for the home side.
OutcomeDrawToHome(home_goals, away_goals) ==
    IF home_goals >= away_goals THEN "home_win"
    ELSE IF home_goals < away_goals THEN "away_win"
    ELSE "draw"

\* Which running sum a cell of the grid is added to.
Outcome(home_goals, away_goals) ==
    IF home_goals > away_goals THEN "home_win"
    ELSE IF home_goals < away_goals THEN "away_win"
    ELSE "draw"

\* The inner loop of _calculate_win_probabilities (for away_goals in
\* range(8)): what one row of the grid adds to the running sum of an outcome
\* by the cells 0..away_goals.  home_pmf and away_pmf hold pmf(0..7).
RECURSIVE WinRow(_, _, _, _, _)
WinRow(home_goals, away_goals, home_pmf, away_pmf, outcome) ==
    IF away_goals < 0 THEN 0
    ELSE LET home_goal_prob == home_pmf[home_goals + 1]
             away_goal_prob == away_pmf[away_goals + 1]
             scoreline_prob == MulNat(home_goal_prob, away_goal_prob)
         IN  WinRow(home_goals, away_goals - 1, home_pmf, away_pmf, outcome)
             + (IF Outcome(home_goals, away_goals) = outcome
                THEN scoreline_prob ELSE 0)

\* The outer loop (for home_goals in range(8)): the running sum of an outcome
\* after the rows 0..home_goals.
RECURSIVE WinLoop(_, _, _, _)
WinLoop(home_goals, home_pmf, away_pmf, outcome) ==
    IF home_goals < 0 THEN 0
    ELSE WinLoop(home_goals - 1, home_pmf, away_pmf, outcome)
         + WinRow(home_goals, 7, home_pmf, away_pmf, outcome)

\* The three bucket sums before normalisation.
WinBuckets(home_xg, away_xg) ==
    LET home_pmf == PmfSeq(7, home_xg)
        away_pmf == PmfSeq(7, away_xg)
    IN  [home_win_prob |-> WinLoop(7, home_pmf, away_pmf, "home_win"),
         draw_prob     |-> WinLoop(7, home_pmf, away_pmf, "draw"),
         away_win_prob |-> WinLoop(7, home_pmf, away_pmf, "away_win")]

\* The divisor of the normalisation.
WinTotal(b) == b.home_win_prob + b.draw_prob + b.away_win_prob

\* The same without the division by the total: the raw bucket sums as
\* percentages.
CalculateWinProbabilitiesUnnormalised(home_xg, away_xg) ==
    IF home_xg < 0 \/ away_xg < 0
    THEN [home_win |-> NaN, draw |-> NaN, away_win |-> NaN]
    ELSE LET b == WinBuckets(home_xg, away_xg)
         IN  [home_win |-> Round1(b.home_win_prob * 100),
              draw     |-> Round1(b.draw_prob * 100),
              away_win |-> Round1(b.away_win_prob * 100)]

\* _calculate_win_probabilities(home_xg, away_xg).  A negative rate makes
\* every pmf, and so every bucket, NaN; a zero total makes 0/0.
CalculateWinProbabilities(home_xg, away_xg) ==
    IF home_xg < 0 \/ away_xg < 0
    THEN [home_win |-> NaN, draw |-> NaN, away_win |-> NaN]
    ELSE LET b == WinBuckets(home_xg, away_xg)
             total == WinTotal(b)
         IN  IF total = 0
             THEN [home_win |-> NaN, draw |-> NaN, away_win |-> NaN]
             ELSE [home_win |-> Round1(Div(b.home_win_prob, total) * 100),
                   draw     |-> Round1(Div(b.draw_prob, total) * 100),
                   away_win |-> Round1(Div(b.away_win_prob, total) * 100)]

\* min(1.15, 1 + (xgot_conceded - 1.0) * 0.1)
DefFactor(team_data) ==
    Min(1150000, ONE + Mul(Real(team_data.xgot_conceded) - ONE, ONE \div 10))

\* The adjusted probability without the clamp at 0.99.
AdjustedScoringProbUnclamped(xg, def_factor) ==
    IF xg < 0 THEN 990000
    ELSE Mul(ONE - PoissonPmf(0, xg), def_factor)

\* The adjusted probability taken from the chance of a blank, pmf(0, xg),
\* instead of its complement.
AdjustedScoringProbOfBlank(xg, def_factor) ==
    IF xg < 0 THEN 990000
    ELSE Min(990000, Mul(PoissonPmf(0, xg), def_factor))

\* min(0.99, scoring_prob * def_factor) with scoring_prob = 1 - pmf(0, xg);
\* for a negative rate the product is NaN and min returns its first argument.
AdjustedScoringProb(xg, def_factor) ==
    IF xg < 0 THEN 990000
    ELSE Min(990000, Mul(ONE - PoissonPmf(0, xg), def_factor))

\* _predict_btts(home_xg, away_xg, home_data, away_data)
PredictBtts(home_xg, away_xg, home_data, away_data) ==
    LET home_def_factor == DefFactor(home_data)
        away_def_factor == DefFactor(away_data)
        home_scoring_prob == AdjustedScoringProb(home_xg, away_def_factor)
        away_scoring_prob == AdjustedScoringProb(away_xg, home_def_factor)
        btts_prob == Mul(home_scoring_prob, away_scoring_prob)
        btts_percentage == Round1(btts_prob * 100)
    IN  [prediction |-> IF btts_percentage >= 500 THEN "Yes" ELSE "No",
         probability |-> btts_percentage]

\* The thresholds of _predict_over_under, in tenths, and their keys.
Thresholds == <<15, 25, 35>>

ThresholdKey(t) == IF t = 15 THEN "1.5" ELSE IF t = 25 THEN "2.5" ELSE "3.5"

ThresholdKeys == {ThresholdKey(Thresholds[i]) : i \in 1..Len(Thresholds)}

\* The entry with under computed on its own from the cdf and cut to one
\* decimal, instead of as the complement of the rounded over.
OverUnderEntryIndependent(threshold, total_xg) ==
    IF total_xg < 0
    THEN [over |-> NaN, under |-> NaN, prediction |-> "Under"]
    ELSE LET under_prob == PoissonCdf((threshold - 5) \div 10, total_xg)
             over_percentage == Round1((ONE - under_prob) * 100)
         IN  [over |-> over_percentage,
              under |-> (under_prob * 100) \div (ONE \div 10),
              prediction |-> IF over_percentage >= 500 THEN "Over" ELSE "Under"]

\* The entry with the cdf itself taken as the probability of over.
OverUnderEntryNoComplement(threshold, total_xg) ==
    IF total_xg < 0
    THEN [over |-> NaN, under |-> NaN, prediction |-> "Under"]
    ELSE LET over_prob == PoissonCdf((threshold - 5) \div 10, total_xg)
             over_percentage == Round1(over_prob * 100)
         IN  [over |-> over_percentage,
              under |-> Round1(100 * ONE - Pct(over_percentage)),
              prediction |-> IF over_percentage >= 500 THEN "Over" ELSE "Under"]

\* One entry of the result of _predict_over_under.
OverUnderEntry(threshold, total_xg) ==
    IF total_xg < 0
    THEN [over |-> NaN, under |-> NaN, prediction |-> "Under"]
    ELSE LET lambda_param == total_xg
             over_prob == ONE - PoissonCdf((threshold - 5) \div 10, lambda_param)
             over_percentage == Round1(over_prob * 100)
         IN  [over |-> over_percentage,
              under |-> Round1(100 * ONE - Pct(over_percentage)),
              prediction |-> IF over_percentage >= 500 THEN "Over" ELSE "Under"]

\* _predict_over_under(home_xg, away_xg)
PredictOverUnder(home_xg, away_xg) ==
    LET total_xg == home_xg + away_xg
    IN  [key \in ThresholdKeys |->
            LET threshold == CHOOSE t \in {15, 25, 35} : ThresholdKey(t) = key
            IN  OverUnderEntry(threshold, total_xg)]

\* f'{home_goals}-{away_goals}'
Digits == <<"0", "1", "2", "3", "4", "5", "6", "7", "8", "9">>

ScorelineStr(home_goals, away_goals) ==
    Digits[home_goals + 1] \o "-" \o Digits[away_goals + 1]

\* The inner loop of _predict_scorelines (for away_goals in range(6)): the
\* entries one row of the grid appends, in order, for the cells
\* 0..away_goals.  home_pmf and away_pmf hold pmf(0..5) of each side.
RECURSIVE ScorelineRow(_, _, _, _)
ScorelineRow(home_goals, away_goals, home_pmf, away_pmf) ==
    IF away_goals < 0 THEN <<>>
    ELSE LET home_prob == home_pmf[home_goals + 1]
             away_prob == away_pmf[away_goals + 1]
             prob == MulNat(home_prob, away_prob)
         IN  Append(ScorelineRow(home_goals, away_goals - 1, home_pmf, away_pmf),
                    [scoreline |-> ScorelineStr(home_goals, away_goals),
                     probability |-> prob])

\* The outer loop (for home_goals in range(6)): the list after the rows
\* 0..home_goals.
RECURSIVE ScorelineLoop(_, _, _)
ScorelineLoop(home_goals, home_pmf, away_pmf) ==
    IF home_goals < 0 THEN <<>>
    ELSE ScorelineLoop(home_goals - 1, home_pmf, away_pmf)
         \o ScorelineRow(home_goals, 5, home_pmf, away_pmf)

\* The list scoreline_probs when the loops are done: 36 entries in ascending
\* (home_goals, away_goals) order, each with its unrounded joint probability.
ScorelineProbs(home_xg, away_xg) ==
    ScorelineLoop(5, PmfSeq(5, home_xg), PmfSeq(5, away_xg))

\* The order of a sort that reverses equal keys (an ascending sort followed
\* by a reversal).
SortsBeforeTiesReversed(list, j, i) ==
    \/ list[j].probability > list[i].probability
    \/ list[j].probability = list[i].probability /\ j > i

\* Whether entry j of the list stands before entry i after
\* list.sort(key=probability, reverse=True): a larger key goes first and,
\* the sort being stable, equal keys keep the order they had in the list.
SortsBefore(list, j, i) ==
    \/ list[j].probability > list[i].probability
    \/ list[j].probability = list[i].probability /\ j < i

\* The place (from 1) entry i of the list has after the sort.
SortedPlace(list, i) ==
    Cardinality({j \in 1..Len(list) : SortsBefore(list, j, i)}) + 1

\* scoreline_probs.sort(...); top_3 = scoreline_probs[:3]
Top3(list) ==
    LET first == {i \in 1..Len(list) : SortedPlace(list, i) <= 3}
    IN  [place \in 1..3 |->
            list[CHOOSE i \in first : SortedPlace(list, i) = place]]

\* _predict_scorelines(home_xg, away_xg).  With a negative rate every key
\* is NaN, no comparison succeeds and the sort leaves the list as it is.
PredictScorelines(home_xg, away_xg) ==
    IF home_xg < 0 \/ away_xg < 0
    THEN [i \in 1..3 |->
            [scoreline |-> ScorelineStr(0, i - 1), probability |-> NaN]]
    ELSE LET scoreline_probs == ScorelineProbs(home_xg, away_xg)
             top_3 == Top3(scoreline_probs)
         IN  [i \in 1..3 |->
                [top_3[i] EXCEPT !.probability = Round1(@ * 100)]]

\* The returned dictionary with total computed as the sum of the two
\* reported values.
PredictWithTotalOfReported(self, home_data, away_data, advantage) ==
    LET xg == ExpectedGoals(self, home_data, away_data, advantage)
    IN  IF xg.status = "raised" THEN Raised
        ELSE [status |-> "ok",
              win_probabilities |->
                  CalculateWinProbabilities(xg.home, xg.away),
              btts |-> PredictBtts(xg.home, xg.away, home_data, away_data),
              over_under |-> PredictOverUnder(xg.home, xg.away),
              scorelines |-> PredictScorelines(xg.home, xg.away),
              expected_goals |->
                  [home |-> Round2(xg.home),
                   away |-> Round2(xg.away),
                   total |-> Round2(xg.home) + Round2(xg.away)]]

\* predict_match_outcome(self, home_data, away_data) with the home-advantage
\* factor as a parameter: the returned dictionary, or the exception raised.
PredictWithAdvantage(self, home_data, away_data, advantage) ==
    LET xg == ExpectedGoals(self, home_data, away_data, advantage)
    IN  IF xg.status = "raised" THEN Raised
        ELSE LET home_expected_goals == xg.home
                 away_expected_goals == xg.away
             IN  [status |-> "ok",
                  win_probabilities |->
                      CalculateWinProbabilities(home_expected_goals,
                                                away_expected_goals),
                  btts |-> PredictBtts(home_expected_goals, away_expected_goals,
                                       home_data, away_data),
                  over_under |-> PredictOverUnder(home_expected_goals,
                                                  away_expected_goals),
                  scorelines |-> PredictScorelines(home_expected_goals,
                                                   away_expected_goals),
                  expected_goals |->
                      [home |-> Round2(home_expected_goals),
                       away |-> Round2(away_expected_goals),
                       total |-> Round2(home_expected_goals
                                        + away_expected_goals)]]

PredictMatchOutcome(self, home_data, away_data) ==
    PredictWithAdvantage(self, home_data, away_data, home_advantage)

\* A call that keeps something for the next one: it leaves a weight of the
\* predictor changed.
PredictCallKeepsState(self, home, away) ==
    [ret |-> PredictMatchOutcome(self, home, away),
     self |-> [self EXCEPT !.defensive_weights.xgot_conceded = 0],
     home_data |-> home,
     away_data |-> away]

\* A call that writes into a dictionary it was passed.
PredictCallWritesInput(self, home, away) ==
    [ret |-> PredictMatchOutcome(self, home, away),
     self |-> self,
     home_data |-> [home EXCEPT !.xg = 0],
     away_data |-> away]

\* Everything a call of predict_match_outcome can reach, as it is when the
\* call returns: the value returned, the predictor and the two dictionaries
\* passed in.  The method assigns only to its own locals.
PredictCall(self, home, away) ==
    [ret |-> PredictMatchOutcome(self, home, away),
     self |-> self,
     home_data |-> home,
     away_data |-> away]

----------------------------------------------------------------------------
(* Bounds of the model                                                     *)

MaxXgSteps == 3
MaxConcededSteps == 2
MaxTacklesSteps == 1
MaxGrid == 6
MaxHistXgSteps == 2
MaxOffenceSteps == 1

\* The ranges the form declares (in tenths).
XgMax == 100
ConcededMax == 100
TacklesMax == 1000

\* The values the form starts with.
DefaultHome ==
    [xg |-> 15, total_shots |-> 120, shots_on_target |-> 50, xgot |-> 13,
     xa |-> 10, passes_rate |-> 750, tackles_rate |-> 700,
     ball_recoveries |-> 500, xgot_conceded |-> 10]

DefaultAway ==
    [xg |-> 12, total_shots |-> 100, shots_on_target |-> 40, xgot |-> 10,
     xa |-> 8, passes_rate |-> 720, tackles_rate |-> 680,
     ball_recoveries |-> 450, xgot_conceded |-> 12]

\* xg in steps of 1.0, xgot_conceded in steps of 2.5, tackles_rate in steps
\* of 70, each from 0 and within its range.
XgVals == {x \in {i * 10 : i \in 0..MaxXgSteps} : x <= XgMax}

ConcededVals ==
    {x \in {i * 25 : i \in 0..MaxConcededSteps} : x <= ConcededMax}

TacklesVals ==
    {x \in {i * 700 : i \in 0..MaxTacklesSteps} : x <= TacklesMax}

\* Records the form can hold: every field within its declared range.
Teams ==
    {[DefaultHome EXCEPT !.xg = x, !.xgot_conceded = c, !.tackles_rate = t] :
        x \in XgVals, c \in ConcededVals, t \in TacklesVals}

\* The records of the history specification.
HistTeams ==
    {[DefaultHome EXCEPT !.xg = x] :
        x \in {i * 10 : i \in 0..MaxHistXgSteps}}

\* Records a direct caller of the engine can pass: any numbers at all, a
\* negative xgot_conceded among them.
OutOfRangeConceded == {-1, -5, -9}

RawTeams ==
    HistTeams \cup
    {[DefaultHome EXCEPT !.xgot_conceded = c, !.tackles_rate = t,
                         !.ball_recoveries = r] :
        c \in OutOfRangeConceded, t \in TacklesVals, r \in {0, 500}}

\* The metrics that enter the offensive score and nothing else.
OffensiveOnly == {"total_shots", "shots_on_target", "xgot", "xa",
                  "passes_rate"}

\* The two default records, and each of them with one such metric moved to
\* a value in steps of 2.5 from 0 (within every one of the five ranges).
Baselines == {DefaultHome, DefaultAway}

OffenceTeams ==
    Baselines \cup
    {[b EXCEPT ![m] = v] :
        b \in Baselines, m \in OffensiveOnly,
        v \in {i * 25 : i \in 0..MaxOffenceSteps}}

\* Expected-goal values handed directly to the four derived computations,
\* in steps of 0.5.
XgGrid == {i * (ONE \div 2) : i \in 0..MaxGrid}

----------------------------------------------------------------------------
(* State                                                                   *)

VARIABLES
    offensive_weights,  \* self.offensive_weights
    defensive_weights,  \* self.defensive_weights
    home_data,          \* the caller's home dictionary
    away_data,          \* the caller's away dictionary
    predictions,        \* what the last call returned, if the inputs are unchanged since
    earlier,            \* history: one earlier call, its inputs and its result
    unit_args,          \* expected-goal values for a direct call of a derived computation
    unit_call           \* the last such call and its result

vars == <<offensive_weights, defensive_weights, home_data, away_data,
          predictions, earlier, unit_args, unit_call>>

None == [status |-> "none"]

Self == [offensive_weights |-> offensive_weights,
         defensive_weights |-> defensive_weights]

\* FootballPredictor() and the form at its defaults.
Init ==
    /\ offensive_weights = InitOffensiveWeights
    /\ defensive_weights = InitDefensiveWeights
    /\ home_data = DefaultHome
    /\ away_data = DefaultAway
    /\ predictions = None
    /\ earlier = None
    /\ unit_args = [home_xg |-> 0, away_xg |-> 0]
    /\ unit_call = [fn |-> "none"]

\* The caller prepares a home record; a result shown for the old inputs is
\* gone.
SetHome(team) ==
    /\ home_data' = team
    /\ predictions' = None
    /\ UNCHANGED <<offensive_weights, defensive_weights, away_data, earlier,
                   unit_args, unit_call>>

SetAway(team) ==
    /\ away_data' = team
    /\ predictions' = None
    /\ UNCHANGED <<offensive_weights, defensive_weights, home_data, earlier,
                   unit_args, unit_call>>

FillHome == \E team \in Teams : SetHome(team)

FillAway == \E team \in Teams : SetAway(team)

\* predictor.predict_match_outcome(home_data, away_data)
PredictStep ==
    \E call \in {PredictCall(Self, home_data, away_data)} :
        /\ predictions' = call.ret
        /\ offensive_weights' = call.self.offensive_weights
        /\ defensive_weights' = call.self.defensive_weights
        /\ home_data' = call.home_data
        /\ away_data' = call.away_data
        /\ UNCHANGED <<unit_args, unit_call>>

\* A call; the history notes whether its inputs differ from those of the
\* remembered call.
Predict ==
    /\ PredictStep
    /\ earlier' = IF earlier.status = "set"
                  THEN [earlier EXCEPT !.other_inputs_since =
                            @ \/ home_data # earlier.home_data
                              \/ away_data # earlier.away_data]
                  ELSE earlier

Next == FillHome \/ FillAway \/ Predict

Spec == Init /\ [][Next]_vars

----------------------------------------------------------------------------
(* The engine called directly, with records outside the form's ranges      *)

FillHomeRaw == \E team \in RawTeams : SetHome(team)

FillAwayRaw == \E team \in RawTeams : SetAway(team)

NextRaw == FillHomeRaw \/ FillAwayRaw \/ Predict

SpecRaw == Init /\ [][NextRaw]_vars

----------------------------------------------------------------------------
(* A sequence of calls on one predictor, one earlier call remembered       *)

FillHomeHist == \E team \in HistTeams : SetHome(team)

FillAwayHist == \E team \in HistTeams : SetAway(team)

PredictRemember ==
    /\ PredictStep
    /\ earlier' = [status |-> "set", home_data |-> home_data,
                   away_data |-> away_data, ret |-> predictions',
                   other_inputs_since |-> FALSE]

NextHist == FillHomeHist \/ FillAwayHist \/ Predict \/ PredictRemember

SpecHist == Init /\ [][NextHist]_vars

----------------------------------------------------------------------------
(* Calls whose records differ in the offensive-only metrics, the call on   *)
(* unmodified default records remembered                                   *)

FillHomeOffence == \E team \in OffenceTeams : SetHome(team)

FillAwayOffence == \E team \in OffenceTeams : SetAway(team)

PredictBaseline ==
    /\ home_data \in Baselines
    /\ away_data \in Baselines
    /\ PredictRemember

NextOffence ==
    FillHomeOffence \/ FillAwayOffence \/ Predict \/ PredictBaseline

SpecOffence == Init /\ [][NextOffence]_vars

----------------------------------------------------------------------------
(* The derived computations called directly on a pair of expected goals    *)

InitUnit ==
    /\ offensive_weights = InitOffensiveWeights
    /\ defensive_weights = InitDefensiveWeights
    /\ home_data \in {DefaultHome, DefaultAway}
    /\ away_data \in {DefaultHome, DefaultAway}
    /\ predictions = None
    /\ earlier = None
    /\ unit_args \in [home_xg : XgGrid, away_xg : XgGrid]
    /\ unit_call = [fn |-> "none"]

UnitFrame == UNCHANGED <<offensive_weights, defensive_weights, home_data,
                         away_data, predictions, earlier, unit_args>>

CallWinProbabilities ==
    /\ unit_call' = [fn |-> "_calculate_win_probabilities",
                     ret |-> CalculateWinProbabilities(unit_args.home_xg,
                                                       unit_args.away_xg)]
    /\ UnitFrame

CallBtts ==
    /\ unit_call' = [fn |-> "_predict_btts",
                     ret |-> PredictBtts(unit_args.home_xg, unit_args.away_xg,
                                         home_data, away_data)]
    /\ UnitFrame

CallOverUnder ==
    /\ unit_call' = [fn |-> "_predict_over_under",
                     ret |-> PredictOverUnder(unit_args.home_xg,
                                              unit_args.away_xg)]
    /\ UnitFrame

CallScorelines ==
    /\ unit_call' = [fn |-> "_predict_scorelines",
                     ret |-> PredictScorelines(unit_args.home_xg,
                                               unit_args.away_xg)]
    /\ UnitFrame

NextUnit == CallWinProbabilities \/ CallBtts \/ CallOverUnder \/ CallScorelines

SpecUnit == InitUnit /\ [][NextUnit]_vars

----------------------------------------------------------------------------
(* Properties                                                              *)

Sections == {"win_probabilities", "btts", "over_under", "scorelines",
             "expected_goals"}

Metrics == {"xg", "total_shots", "shots_on_target", "xgot", "xa",
            "passes_rate", "tackles_rate", "ball_recoveries", "xgot_conceded"}

NonNegative(team_data) == \A m \in Metrics : team_data[m] >= 0

WinSum == predictions.win_probabilities.home_win
          + predictions.win_probabilities.draw
          + predictions.win_probabilities.away_win

\* C1: for valid team records the three win probabilities returned by
\* predict_match_outcome sum to 100.0 within 0.1 (percentages are counted in
\* tenths: 1000 within 1).
C1_WinProbabilitiesSumTo100 ==
    predictions.status = "ok" => Abs(WinSum - 1000) <= 1

\* A prediction whose three rounded values do not add up to exactly 100.0.
C1_Witness == predictions.status = "ok" /\ WinSum = 1001

\* C2: for every threshold and valid input, over + under is exactly 100.0.
C2_OverPlusUnderIs100 ==
    predictions.status = "ok" =>
        \A key \in ThresholdKeys :
            /\ DOMAIN predictions.over_under = ThresholdKeys
            /\ predictions.over_under[key].over
               + predictions.over_under[key].under = 1000

\* A prediction with an over value strictly between 0 and 100 whose
\* unrounded percentage is not a whole number of tenths.
C2_Witness ==
    /\ predictions.status = "ok"
    /\ predictions.over_under["2.5"].over \in 1..999
    /\ predictions.over_under["2.5"].over % 10 # 0

UnitList == ScorelineProbs(unit_args.home_xg, unit_args.away_xg)

\* The place in the list of the entry named by position i of the result.
UnitIndex(i) ==
    CHOOSE c \in 1..36 : UnitList[c].scoreline = unit_call.ret[i].scoreline

\* Entry c of the list ranks ahead of entry d: larger probability, or equal
\* probability and earlier in ascending (home_goals, away_goals) order.
Ahead(c, d) ==
    \/ UnitList[c].probability > UnitList[d].probability
    \/ UnitList[c].probability = UnitList[d].probability /\ c < d

\* C3: _predict_scorelines returns exactly 3 entries of the 6 x 6 grid,
\* non-increasing in probability; they are the three that rank first, equal
\* probabilities ranked by ascending (home_goals, away_goals) order.
C3_ScorelinesTop3Stable ==
    unit_call.fn = "_predict_scorelines" =>
        /\ DOMAIN unit_call.ret = 1..3
        /\ \A i \in 1..3 :
              /\ \E h, a \in 0..5 :
                    unit_call.ret[i].scoreline = ScorelineStr(h, a)
              /\ unit_call.ret[i].probability =
                    Round1(UnitList[UnitIndex(i)].probability * 100)
        /\ \A i \in 1..2 :
              /\ unit_call.ret[i].probability >= unit_call.ret[i + 1].probability
              /\ Ahead(UnitIndex(i), UnitIndex(i + 1))
        /\ \A c \in 1..36 \ {UnitIndex(i) : i \in 1..3} : Ahead(UnitIndex(3), c)

\* Equal positive rates: "0-1" and "1-0" tie and "0-1" is placed first.
C3_Witness ==
    /\ unit_call.fn = "_predict_scorelines"
    /\ unit_args.home_xg = unit_args.away_xg
    /\ unit_args.home_xg > 0
    /\ unit_call.ret[2].scoreline = "0-1"
    /\ unit_call.ret[3].scoreline = "1-0"
    /\ unit_call.ret[2].probability > 0

\* C4: for valid input the BTTS probability lies in [0, 98.01] (tenths of a
\* percent times ten are hundredths).
C4_BttsRange ==
    predictions.status = "ok" =>
        /\ predictions.btts.probability >= 0
        /\ predictions.btts.probability * 10 <= 9801

\* Both adjusted probabilities reach the clamp: 0.99 * 0.99 reported as 98.0.
C4_Witness ==
    /\ predictions.status = "ok"
    /\ predictions.btts.probability = 980

SameInputsAsEarlier ==
    /\ earlier.status = "set"
    /\ predictions.status # "none"
    /\ earlier.home_data = home_data
    /\ earlier.away_data = away_data

\* C5: whatever calls were made in between, a call with the inputs of an
\* earlier call returns what the earlier call returned.
C5_HistoryIndependent == SameInputsAsEarlier => predictions = earlier.ret

\* The same inputs again after a call with other inputs.
C5_Witness ==
    /\ SameInputsAsEarlier
    /\ earlier.other_inputs_since
    /\ predictions.status = "ok"

\* C6: a call of predict_match_outcome (a step that leaves a result) leaves
\* both input records and both weight tables as they were.
C6_CallLeavesInputsAndWeights ==
    [][predictions'.status # "none" =>
          /\ home_data' = home_data
          /\ away_data' = away_data
          /\ offensive_weights' = offensive_weights
          /\ defensive_weights' = defensive_weights]_vars

\* A result computed from records other than the defaults, the weights
\* being those of __init__.
C6_Witness ==
    /\ predictions.status = "ok"
    /\ home_data # DefaultHome
    /\ away_data # DefaultAway
    /\ offensive_weights = InitOffensiveWeights
    /\ defensive_weights = InitDefensiveWeights

\* C7: predict_match_outcome never raises, whatever numbers it is given.
C7_NeverRaises == predictions.status # "raised"

C9_HomeAwaySymmetry ==
    /\ unit_call.fn = "_calculate_win_probabilities" =>
          LET swapped == CalculateWinProbabilities(unit_args.away_xg,
                                                   unit_args.home_xg)
          IN  /\ unit_call.ret.home_win = swapped.away_win
              /\ unit_call.ret.away_win = swapped.home_win
              /\ unit_call.ret.draw = swapped.draw
    /\ LET straight == ExpectedGoals(Self, home_data, away_data, ONE)
           swapped == ExpectedGoals(Self, away_data, home_data, ONE)
       IN  /\ straight.status = "ok" /\ swapped.status = "ok"
           /\ straight.home = swapped.away
           /\ straight.away = swapped.home

\* Unequal rates and unequal records: the two sides' values differ, so the
\* swap is visible.
C9_Witness ==
    /\ unit_call.fn = "_calculate_win_probabilities"
    /\ unit_args.home_xg > unit_args.away_xg
    /\ unit_args.away_xg > 0
    /\ unit_call.ret.home_win > unit_call.ret.away_win
    /\ home_data # away_data
    /\ ExpectedGoals(Self, home_data, away_data, ONE).home
       # ExpectedGoals(Self, home_data, away_data, ONE).away

\* C10 as stated: the over percentages are strictly decreasing across the
\* thresholds, and at 3.0 / 3.0 the 1.5 threshold is labelled "Over".
C10_StrictlyDecreasing ==
    unit_call.fn = "_predict_over_under" =>
        /\ unit_call.ret["1.5"].over > unit_call.ret["2.5"].over
        /\ unit_call.ret["2.5"].over > unit_call.ret["3.5"].over
        /\ (unit_args.home_xg = 3 * ONE /\ unit_args.away_xg = 3 * ONE) =>
              unit_call.ret["1.5"].prediction = "Over"

\* C10 amended: the over percentages never increase across the thresholds
\* (they can be equal), and at 3.0 / 3.0 the 1.5 threshold is labelled "Over".
C10_NonIncreasing ==
    unit_call.fn = "_predict_over_under" =>
        /\ unit_call.ret["1.5"].over >= unit_call.ret["2.5"].over
        /\ unit_call.ret["2.5"].over >= unit_call.ret["3.5"].over
        /\ (unit_args.home_xg = 3 * ONE /\ unit_args.away_xg = 3 * ONE) =>
              unit_call.ret["1.5"].prediction = "Over"

\* The call at 3.0 / 3.0, where the three values do decrease.
C10_Witness ==
    /\ unit_call.fn = "_predict_over_under"
    /\ unit_args.home_xg = 3 * ONE
    /\ unit_args.away_xg = 3 * ONE
    /\ unit_call.ret["1.5"].prediction = "Over"
    /\ unit_call.ret["1.5"].over > unit_call.ret["2.5"].over
    /\ unit_call.ret["2.5"].over > unit_call.ret["3.5"].over

\* C11: when both teams' xg is 0 both expected-goals values are 0 and the
\* call returns draw = 100.0, home_win = away_win = 0.0, a BTTS probability
\* of 0.0 and the BTTS prediction "No".
C11_ZeroRatesAllDraw ==
    (predictions.status = "ok" /\ home_data.xg = 0 /\ away_data.xg = 0) =>
        LET xg == ExpectedGoals(Self, home_data, away_data, home_advantage)
        IN  /\ xg.home = 0 /\ xg.away = 0
            /\ predictions.win_probabilities =
                  [home_win |-> 0, draw |-> 1000, away_win |-> 0]
            /\ predictions.btts.probability = 0
            /\ predictions.btts.prediction = "No"

\* A result for two records without expected goals, with defensive factors
\* above and below 1 (nothing conceded on one side, 2.5 on the other).
C11_Witness ==
    /\ predictions.status = "ok"
    /\ home_data.xg = 0 /\ away_data.xg = 0
    /\ home_data.xgot_conceded = 0
    /\ away_data.xgot_conceded = 25
    /\ predictions.win_probabilities.draw = 1000

\* Two records agree on every metric that is not offensive-only.
SameDeciding(a, b) == \A m \in Metrics \ OffensiveOnly : a[m] = b[m]

OffensiveScore(team_data) ==
    CalculateTeamStrength(Self, team_data).offensive_score

DiffersFromEarlierInOffenceOnly ==
    /\ earlier.status = "set"
    /\ predictions.status # "none"
    /\ SameDeciding(earlier.home_data, home_data)
    /\ SameDeciding(earlier.away_data, away_data)

\* C12: two calls of predict_match_outcome whose records differ only in
\* total_shots, shots_on_target, xgot, xa or passes_rate of either team
\* return the same value in every one of the five sections.
C12_OffensiveScoreUnused ==
    DiffersFromEarlierInOffenceOnly =>
        /\ predictions.status = earlier.ret.status
        /\ \A section \in Sections :
              predictions[section] = earlier.ret[section]

\* A call after the remembered one in which both records differ from the
\* remembered ones, in an offensive-only metric and so in offensive score.
C12_Witness ==
    /\ DiffersFromEarlierInOffenceOnly
    /\ predictions.status = "ok"
    /\ home_data # earlier.home_data
    /\ away_data # earlier.away_data
    /\ OffensiveScore(home_data) # OffensiveScore(earlier.home_data)
    /\ OffensiveScore(away_data) # OffensiveScore(earlier.away_data)

\* The call on the form's default records has returned.
DefaultsPredicted ==
    /\ home_data = DefaultHome
    /\ away_data = DefaultAway
    /\ predictions.status = "ok"

\* C13 as stated: for the default inputs the home expected-goals value that
\* predict_match_outcome computes is 1.725 (to within 0.00001).
C13_DefaultHomeXgIs1725 ==
    DefaultsPredicted =>
        Abs(ExpectedGoals(Self, home_data, away_data, home_advantage).home
            - 1725000) <= 10

\* C13 amended: for the default inputs the away defensive score is 0.646692
\* and the home expected-goals value is 1.5 * 1.15 / (0.646692 + 0.5) =
\* 1.504327 (each to within 0.00001), reported as 1.5.
C13_DefaultHomeXg ==
    DefaultsPredicted =>
        /\ Abs(CalculateTeamStrength(Self, away_data).defensive_score
               - 646692) <= 10
        /\ Abs(ExpectedGoals(Self, home_data, away_data, home_advantage).home
               - 1504327) <= 10
        /\ predictions.expected_goals.home = 150

\* The call on the default records, with the inputs the claim lists.
C13_Witness ==
    /\ DefaultsPredicted
    /\ home_data.xg = 15
    /\ away_data.tackles_rate = 680
    /\ away_data.ball_recoveries = 450
    /\ away_data.xgot_conceded = 12
    /\ predictions.expected_goals.home = 150

\* The stated defensive score d of a record, without a division:
\* (d - 0.30 * tackles_rate / 100 - 0.30 * ball_recoveries / 100)
\* * (xgot_conceded + 0.1) = 0.40, to within 0.00005.
IsStatedDefensiveScore(d, team_data) ==
    LET rates == (3 * Real(team_data.tackles_rate)) \div 1000
                 + (3 * Real(team_data.ball_recoveries)) \div 1000
        conceded == Real(team_data.xgot_conceded) + 100000
    IN  Abs(Mul(d - rates, conceded) - 400000) <= 50

\* value = xg * factor / (d + 0.5), without a division:
\* value * (d + 0.5) = xg * factor, to within 0.00005.
IsStatedExpectedGoals(value, xg_tenths, factor, d) ==
    Abs(Mul(value, d + 500000) - Mul(Real(xg_tenths), factor)) <= 50

\* C14: for every valid input, home expected goals = home.xg * 1.15 /
\* (away defensive score + 0.5) and away expected goals = away.xg /
\* (home defensive score + 0.5), each defensive score being
\* 0.40 / (xgot_conceded + 0.1) + 0.30 * tackles_rate / 100
\* + 0.30 * ball_recoveries / 100; the reported values are these, rounded.
C14_ExpectedGoalsModel ==
    predictions.status = "ok" =>
        LET home_def == CalculateTeamStrength(Self, home_data).defensive_score
            away_def == CalculateTeamStrength(Self, away_data).defensive_score
            xg == ExpectedGoals(Self, home_data, away_data, home_advantage)
        IN  /\ IsStatedDefensiveScore(home_def, home_data)
            /\ IsStatedDefensiveScore(away_def, away_data)
            /\ IsStatedExpectedGoals(xg.home, home_data.xg, 1150000, away_def)
            /\ IsStatedExpectedGoals(xg.away, away_data.xg, ONE, home_def)
            /\ predictions.expected_goals.home = Round2(xg.home)
            /\ predictions.expected_goals.away = Round2(xg.away)

\* A result for two records with different defensive scores and equal
\* positive xg: the home value is not the away value, and neither side's
\* value fits the stated formula with the sides' defences exchanged.
C14_Witness ==
    /\ predictions.status = "ok"
    /\ home_data.xg = away_data.xg
    /\ home_data.xg > 0
    /\ LET home_def == CalculateTeamStrength(Self, home_data).defensive_score
           away_def == CalculateTeamStrength(Self, away_data).defensive_score
           xg == ExpectedGoals(Self, home_data, away_data, home_advantage)
       IN  /\ home_def # away_def
           /\ xg.home # xg.away
           /\ ~IsStatedExpectedGoals(xg.home, home_data.xg, 1150000, home_def)
           /\ ~IsStatedExpectedGoals(xg.away, away_data.xg, ONE, away_def)
           /\ ~IsStatedExpectedGoals(xg.away, away_data.xg, 1150000, home_def)
           /\ ~IsStatedExpectedGoals(xg.home, home_data.xg, ONE, away_def)

\* C15: the reported total is the rounded sum of the two unrounded
\* expected-goals values, and differs from the sum of the two reported values
\* by at most 0.01 (values are counted in hundredths).
C15_TotalRoundsTheSum ==
    predictions.status = "ok" =>
        LET xg == ExpectedGoals(Self, home_data, away_data, home_advantage)
            reported == predictions.expected_goals
        IN  /\ reported.total = Round2(xg.home + xg.away)
            /\ Abs(reported.total - (reported.home + reported.away)) <= 1

\* A result whose total differs from the sum of the two reported values by
\* exactly 0.01.
C15_Witness ==
    /\ predictions.status = "ok"
    /\ Abs(predictions.expected_goals.total
           - (predictions.expected_goals.home
              + predictions.expected_goals.away)) = 1

====
